---- MODULE Spec2Model ----
(***************************************************************************)
(* A model of the rating pipeline of Code-Elo-Backend: the resume analysis *)
(* engine (src/scrapers/resume_parser.py: the section locator              *)
(* find_section, the five counters, parse_resume, calculate_resume_score   *)
(* and the tier selection of display_breakdown), compute_elo               *)
(* (src/core/scorer.py) and the request handler calculate_rating           *)
(* (src/main.py).                                                          *)
(*                                                                         *)
(* Five specifications share the definitions:                              *)
(*   Spec        a resume text runs through parse_resume,                  *)
(*               calculate_resume_score and display_breakdown;             *)
(*   SpecSig     one counter is applied to the pattern counts its regular  *)
(*               expressions produced on a section;                        *)
(*   SpecScore   calculate_resume_score and display_breakdown are applied  *)
(*               to a metrics record;                                      *)
(*   SpecRating  a request runs through calculate_rating;                  *)
(*   SpecElo     compute_elo is applied to a platform_scores record.       *)
(*                                                                         *)
(* Units: a per-metric score is a float with two decimals in the source    *)
(* and is held here in hundredths (30.00 is 3000); total_score is the      *)
(* integer the source's round() returns.                                   *)
(***************************************************************************)
EXTENDS Integers, Sequences, FiniteSets, TLC

VARIABLES
    pc,             \* position of the run: the next step of the specification
    text,           \* the resume text, a sequence of lines (Spec)
    spans,          \* the span find_section returned to each counter, or NoValue
    metrics,        \* the metrics record of parse_resume, or NoValue
    scores,         \* the scores record of calculate_resume_score, or NoValue
    tier,           \* the tier letter display_breakdown selects, "" before
    counter,        \* the counter applied (SpecSig) or that raised (SpecRating), "" elsewhere
    raw,            \* the pattern counts the counter's regular expressions gave (SpecSig)
    fallback_count, \* matches of the global fallback pattern, NotEvaluated when it was not run
    count,          \* the counter's return value (SpecSig)
    leetcode_data,  \* what get_leetcode_data returned to calculate_rating, or NoValue
    github_data,    \* what get_github_data returned to calculate_rating, or NoValue
    resume,         \* the uploaded file of the request, or NoValue
    tmp_file,       \* the temporary copy of the upload: "none", "exists" or "deleted"
    error,          \* the exception parse_resume caught and printed, or NoValue
    exception,      \* the exception propagating in calculate_rating, or NoValue
    platform_scores,\* the argument of compute_elo, or NoValue
    elo_rating,     \* what compute_elo returned, or NoValue
    response        \* what the caller of calculate_rating gets, or NoValue

\* The variables of the resume analysis engine.
engineVars == <<pc, text, spans, metrics, scores, tier, counter, raw, fallback_count, count>>

engineVarsButPc ==
    <<text, spans, metrics, scores, tier, counter, raw, fallback_count, count>>

\* The variables of calculate_rating (src/main.py) and compute_elo.
ratingVars ==
    <<leetcode_data, github_data, resume, tmp_file, error, exception, platform_scores,
      elo_rating, response>>

vars == <<engineVars, ratingVars>>

NoValue == [none |-> TRUE]

\* No request to calculate_rating is in progress.
NoRequest ==
    /\ leetcode_data = NoValue
    /\ github_data = NoValue
    /\ resume = NoValue
    /\ tmp_file = "none"
    /\ error = NoValue
    /\ exception = NoValue
    /\ platform_scores = NoValue
    /\ elo_rating = NoValue
    /\ response = NoValue

Min(a, b) == IF a <= b THEN a ELSE b

Max(a, b) == IF a >= b THEN a ELSE b

MetricKeys == {"internships", "projects", "certifications", "skills", "achievements"}

(***************************************************************************)
(* calculate_resume_score                                                  *)
(***************************************************************************)

\* Python's round(): round half to even of num/den, num >= 0, den > 0.
RoundHalfEven(num, den) ==
    LET q == num \div den
        r == num % den
    IN  IF 2 * r < den THEN q
        ELSE IF 2 * r > den THEN q + 1
        ELSE IF q % 2 = 0 THEN q ELSE q + 1

weights_bad ==
    [internships |-> 30, projects |-> 25, certifications |-> 20,
     skills |-> 15, achievements |-> 15]

weights ==
    [internships |-> 30, projects |-> 25, certifications |-> 20,
     skills |-> 15, achievements |-> 10]

\* The mutant of max_values: the metrics are normalized by the counters' caps.
max_values_counter_caps ==
    [internships |-> 5, projects |-> 8, certifications |-> 10,
     skills |-> 30, achievements |-> 8]

max_values ==
    [internships |-> 3, projects |-> 4, certifications |-> 5,
     skills |-> 20, achievements |-> 5]

\* The mutant of metric_score: the value is not capped before it is normalized.
metric_score_uncapped(key, value) ==
    RoundHalfEven(value * weights[key] * 100, max_values[key])

\* scores[key + "_score"] in hundredths:
\* round(min(value, max) / max * weight, 2).
metric_score(key, value) ==
    LET capped_value == Min(value, max_values[key])
    IN  RoundHalfEven(capped_value * weights[key] * 100, max_values[key])

calculate_resume_score(m) ==
    LET s == [key \in MetricKeys |-> metric_score(key, m[key])]
        sum == s.internships + s.projects + s.certifications
               + s.skills + s.achievements
    IN  [internships_score    |-> s.internships,
         projects_score       |-> s.projects,
         certifications_score |-> s.certifications,
         skills_score         |-> s.skills,
         achievements_score   |-> s.achievements,
         total_score          |-> RoundHalfEven(sum, 100)]

(***************************************************************************)
(* display_breakdown: the performance tier                                 *)
(***************************************************************************)

\* The mutant of tier_of: the C threshold compares with > instead of >=.
tier_of_strict(total) ==
    IF total >= 90 THEN "S"
    ELSE IF total >= 80 THEN "A"
    ELSE IF total >= 70 THEN "B"
    ELSE IF total > 55 THEN "C"
    ELSE IF total >= 40 THEN "D"
    ELSE "E"

tier_of(total) ==
    IF total >= 90 THEN "S"
    ELSE IF total >= 80 THEN "A"
    ELSE IF total >= 70 THEN "B"
    ELSE IF total >= 55 THEN "C"
    ELSE IF total >= 40 THEN "D"
    ELSE "E"

(***************************************************************************)
(* Reconciliation of a counter's indicators                                *)
(***************************************************************************)

\* valid_indicators = [i for i in indicators if i > 0]
valid_indicators(indicators) == SelectSeq(indicators, LAMBDA i : i > 0)

RECURSIVE Insert(_, _)
Insert(x, sorted) ==
    IF sorted = <<>> THEN <<x>>
    ELSE IF x <= Head(sorted) THEN <<x>> \o sorted
    ELSE <<Head(sorted)>> \o Insert(x, Tail(sorted))

\* list.sort(): ascending order.
RECURSIVE Sort(_)
Sort(seq) == IF seq = <<>> THEN <<>> ELSE Insert(Head(seq), Sort(Tail(seq)))

\* The mutant of median: the element below the middle rank.
median_low(valid) == Sort(valid)[Max(1, Len(valid) \div 2)]

\* valid_indicators.sort(); valid_indicators[len(valid_indicators) // 2]
\* (Python indexes from 0, a TLA+ sequence from 1).
median(valid) == Sort(valid)[(Len(valid) \div 2) + 1]

RECURSIVE max_of(_)
\* max(indicators) of a nonempty list.
max_of(indicators) ==
    IF Len(indicators) = 1 THEN Head(indicators)
    ELSE Max(Head(indicators), max_of(Tail(indicators)))

\* A section branch that returned `value`, and one that fell through to the fallback.
Returned(value) == [returned |-> TRUE, value |-> value]

FellThrough == [returned |-> FALSE]

Evaluated(n) == [evaluated |-> TRUE, n |-> n]

(***************************************************************************)
(* The counters, on the pattern counts of their section                    *)
(***************************************************************************)

\* The mutant of internships_indicators: the bullets are divided by 2, not by 4.
internships_indicators_half(date_patterns, company_patterns, role_count, bullets) ==
    <<date_patterns, company_patterns, role_count, bullets \div 2>>

internships_indicators(date_patterns, company_patterns, role_count, bullets) ==
    <<date_patterns, company_patterns, role_count, bullets \div 4>>

\* The mutant of internships_section: the count is returned without its cap.
internships_section_uncapped(date_patterns, company_patterns, role_count, bullets) ==
    LET valid == valid_indicators(
            internships_indicators(date_patterns, company_patterns, role_count, bullets))
    IN  IF valid # <<>> THEN Returned(median(valid)) ELSE FellThrough

\* The body of `if start != -1:` in count_internships.
internships_section(date_patterns, company_patterns, role_count, bullets) ==
    LET valid == valid_indicators(
            internships_indicators(date_patterns, company_patterns, role_count, bullets))
    IN  IF valid # <<>> THEN Returned(Min(median(valid), 5)) ELSE FellThrough

\* The mutant of internships_fallback: the fallback is skipped and 0 returned.
internships_fallback_zero(n) == 0

internships_fallback(n) == Min(Max(n, 0), 5)

projects_indicators(title_patterns, action_count, tech_indicators, bullets, github_links) ==
    <<title_patterns, action_count \div 2, tech_indicators \div 2, bullets \div 3,
      github_links>>

\* The body of `if start != -1:` in count_projects.
projects_section(title_patterns, action_count, tech_indicators, bullets, github_links) ==
    LET valid == valid_indicators(
            projects_indicators(title_patterns, action_count, tech_indicators, bullets,
                                github_links))
    IN  IF valid # <<>> THEN Returned(Min(Max(median(valid), 1), 8)) ELSE FellThrough

\* The mutant of projects_fallback: the floor of 1 of the section branch is
\* applied to the fallback too.
projects_fallback_floor(n) == Min(Max(n, 1), 8)

projects_fallback(n) == Min(Max(n, 0), 8)

\* The mutant of certifications_indicators: the keyword hits are not halved.
certifications_indicators_whole(bullets, platform_count, cert_keywords, dates, common_certs) ==
    <<bullets, platform_count, cert_keywords, dates, common_certs>>

certifications_indicators(bullets, platform_count, cert_keywords, dates, common_certs) ==
    <<bullets, platform_count, cert_keywords \div 2, dates, common_certs>>

\* The body of `if start != -1:` in count_certifications; `if indicators:` holds
\* of a list of five.
certifications_section(bullets, platform_count, cert_keywords, dates, common_certs) ==
    LET indicators == certifications_indicators(bullets, platform_count, cert_keywords,
                                                dates, common_certs)
    IN  IF indicators # <<>> THEN Returned(Min(max_of(indicators), 10)) ELSE FellThrough

certifications_fallback(n) == Min(Max(n, 0), 10)

\* The mutant of skills_total: the whole bonus is added, not half of it.
skills_total_full_bonus(found_skills, found, separators) ==
    LET bonus_skills == IF found /\ separators > found_skills
                        THEN separators - found_skills ELSE 0
    IN  Min(found_skills + bonus_skills, 30)

\* count_skills after the vocabulary search: found_skills is len(found_skills),
\* found is start != -1, separators the commas and semicolons of the section.
skills_total(found_skills, found, separators) ==
    LET bonus_skills == IF found /\ separators > found_skills
                        THEN separators - found_skills ELSE 0
        total_skills == found_skills + (bonus_skills \div 2)
    IN  Min(total_skills, 30)

\* The mutant of achievements_total: the section signal is the pattern hits halved.
achievements_total_halved(found, bullets, pattern_matches, extra_found, leadership_count) ==
    LET section_count == IF found THEN pattern_matches \div 2 ELSE 0
    IN  IF extra_found THEN Max(section_count, leadership_count \div 2)
        ELSE section_count

\* total_count of count_achievements before its fallback.
achievements_total(found, bullets, pattern_matches, extra_found, leadership_count) ==
    LET section_count == IF found THEN Max(bullets, pattern_matches) ELSE 0
    IN  IF extra_found THEN Max(section_count, leadership_count \div 2)
        ELSE section_count

\* The mutant of achievements_count: the fallback matches are never used.
achievements_count_no_fallback(total_count, n) == Min(total_count, 8)

\* count_achievements; n is read only when total_count is 0.
achievements_count(total_count, n) ==
    LET total == IF total_count = 0 THEN Max(total_count, n) ELSE total_count
    IN  Min(total, 8)

(***************************************************************************)
(* The resume text                                                         *)
(*                                                                         *)
(* A text is a sequence of lines, each followed by "\n"; a line is held as *)
(* its own (lower-case) characters. Offsets are character offsets into the *)
(* text, from 0, as in the source.                                         *)
(***************************************************************************)

\* The lines a text is drawn from: section headers standing alone on a line,
\* and body lines.
Lines ==
    {"john doe", "experience", "projects", "personal projects", "certifications",
     "education", "skills", "intern, trainee, co-op",
     "built a tool, created a website, developed an application",
     "aws certified", "coursera, udemy, nptel, aws certified",
     "python, java, react, docker, aws"}

\* len(line)
LineLen(line) ==
    CASE line = "john doe" -> 8
      [] line = "experience" -> 10
      [] line = "projects" -> 8
      [] line = "personal projects" -> 17
      [] line = "certifications" -> 14
      [] line = "education" -> 9
      [] line = "skills" -> 6
      [] line = "intern, trainee, co-op" -> 22
      [] line = "built a tool, created a website, developed an application" -> 57
      [] line = "aws certified" -> 13
      [] line = "coursera, udemy, nptel, aws certified" -> 37
      [] line = "python, java, react, docker, aws" -> 32

RECURSIVE LineStart(_, _)
\* The offset at which line i of text t starts; LineStart(t, Len(t) + 1) is len(text).
LineStart(t, i) == IF i = 1 THEN 0 ELSE LineStart(t, i - 1) + LineLen(t[i - 1]) + 1

\* Whether a line standing alone matches the alternation of next_section_pattern
\* between `\n\s*` and `\s*[:\n]`.
InVocabulary(line) ==
    line \in {"experience", "projects", "certifications", "education", "skills"}

NoHits ==
    [date_patterns |-> 0, company_patterns |-> 0, role_count |-> 0, bullets |-> 0,
     intern_fallback |-> 0, title_patterns |-> 0, action_count |-> 0,
     tech_indicators |-> 0, github_links |-> 0, project_fallback |-> 0,
     platform_count |-> 0, cert_keywords |-> 0, dates |-> 0, common_certs |-> 0,
     cert_fallback |-> 0, separators |-> 0, pattern_matches |-> 0,
     leadership_count |-> 0, cert_as_achievement |-> 0]

\* len(re.findall(pattern, line)) for each pattern of the counters, by line.
LineHits(line) ==
    CASE line = "intern, trainee, co-op" ->
            [NoHits EXCEPT !.role_count = 2, !.intern_fallback = 3, !.separators = 2]
      [] line = "built a tool, created a website, developed an application" ->
            [NoHits EXCEPT !.action_count = 3, !.tech_indicators = 2,
                           !.project_fallback = 3, !.separators = 2]
      [] line = "aws certified" ->
            [NoHits EXCEPT !.platform_count = 1, !.cert_keywords = 1,
                           !.common_certs = 1, !.cert_fallback = 1,
                           !.cert_as_achievement = 1]
      [] line = "coursera, udemy, nptel, aws certified" ->
            [NoHits EXCEPT !.platform_count = 4, !.cert_keywords = 1,
                           !.common_certs = 1, !.cert_fallback = 4,
                           !.separators = 3, !.cert_as_achievement = 4]
      [] line = "python, java, react, docker, aws" ->
            [NoHits EXCEPT !.platform_count = 1, !.common_certs = 2, !.separators = 4]
      [] OTHER -> NoHits

\* The terms of all_skills that re.search finds in a line.
LineSkills(line) ==
    CASE line = "aws certified" -> {"aws"}
      [] line = "coursera, udemy, nptel, aws certified" -> {"aws"}
      [] line = "python, java, react, docker, aws" ->
            {"python", "java", "react", "docker", "aws"}
      [] OTHER -> {}

RECURSIVE Hits(_, _)
\* len(re.findall(pattern, section_text)): the matches of a pattern in a run of lines.
Hits(lines, pattern) ==
    IF lines = <<>> THEN 0
    ELSE LineHits(Head(lines))[pattern] + Hits(Tail(lines), pattern)

(***************************************************************************)
(* find_section                                                            *)
(***************************************************************************)

\* The least element of a nonempty set of integers.
Least(S) == CHOOSE x \in S : \A y \in S : x <= y

\* The mutant of header_match: the last occurrence of the header is taken.
header_match_last(t, header) ==
    LET S == {i \in 2..Len(t) : t[i] = header}
    IN  IF S = {} THEN 0 ELSE CHOOSE x \in S : \A y \in S : x >= y

\* re.search(r'\n\s*' + header + r'\s*[:\n]', text_lower): the line of the
\* leftmost match, 0 when there is none. The pattern starts with "\n", so the
\* first line of the text never matches.
header_match(t, header) ==
    LET S == {i \in 2..Len(t) : t[i] = header}
    IN  IF S = {} THEN 0 ELSE Least(S)

\* re.search(next_section_pattern, text_lower[start:]) after the header on line i:
\* the line of the leftmost match, 0 when there is none. The slice starts with
\* line i + 1, which has no "\n" before it in the slice.
next_match(t, i) ==
    LET S == {j \in (i + 2)..Len(t) : InVocabulary(t[j])}
    IN  IF S = {} THEN 0 ELSE Least(S)

\* The mutant of span_after: without a following header the span ends at
\* offset 3000 of the text, not 3000 characters after its start.
span_after_absolute(t, i) ==
    LET start == LineStart(t, i + 1)
        j == next_match(t, i)
    IN  IF j # 0 THEN <<start, LineStart(t, j) - 1>> ELSE <<start, 3000>>

\* The span find_section returns for a header matched on line i.
span_after(t, i) ==
    LET start == LineStart(t, i + 1)
        j == next_match(t, i)
    IN  IF j # 0 THEN <<start, LineStart(t, j) - 1>> ELSE <<start, start + 3000>>

\* The mutant of find_section: the header occurring first in the text wins,
\* whichever candidate it is.
find_section_document_order(t, section_headers) ==
    LET S == {i \in 2..Len(t) :
                \E k \in 1..Len(section_headers) : t[i] = section_headers[k]}
    IN  IF S = {} THEN <<-1, -1>> ELSE span_after(t, Least(S))

RECURSIVE find_section(_, _)
find_section(t, section_headers) ==
    IF section_headers = <<>> THEN <<-1, -1>>
    ELSE LET i == header_match(t, Head(section_headers))
         IN  IF i # 0 THEN span_after(t, i)
             ELSE find_section(t, Tail(section_headers))

\* text[start:end]: the lines lying within the span.
section_text(t, span) ==
    LET inside(k) == /\ LineStart(t, k) >= span[1]
                     /\ LineStart(t, k) + LineLen(t[k]) <= span[2]
        F[k \in 0..Len(t)] ==
            IF k = 0 THEN <<>>
            ELSE IF inside(k) THEN Append(F[k - 1], t[k]) ELSE F[k - 1]
    IN  F[Len(t)]

exp_headers ==
    <<"experience", "work experience", "professional experience",
      "internships", "internship", "work history", "employment">>

project_headers ==
    <<"projects", "personal projects", "academic projects", "key projects",
      "technical projects", "major projects", "project work", "project experience">>

cert_headers ==
    <<"certifications", "certification", "certificates",
      "licenses and certifications", "professional certifications",
      "courses", "online courses", "training", "courses and certifications">>

skill_headers == <<"skills", "technical skills", "core competencies", "technologies">>

achievement_headers ==
    <<"achievements", "achievement", "awards", "honors", "accomplishments",
      "awards and honors", "recognitions", "scholarships">>

extra_headers ==
    <<"extracurricular", "activities", "leadership", "positions of responsibility">>

(***************************************************************************)
(* The counters, on a text                                                 *)
(***************************************************************************)

count_internships(t) ==
    LET span == find_section(t, exp_headers)
        sec == section_text(t, span)
        r == IF span[1] # -1
             THEN internships_section(Hits(sec, "date_patterns"),
                                      Hits(sec, "company_patterns"),
                                      Hits(sec, "role_count"), Hits(sec, "bullets"))
             ELSE FellThrough
    IN  IF r.returned THEN r.value
        ELSE internships_fallback(Hits(t, "intern_fallback"))

count_projects(t) ==
    LET span == find_section(t, project_headers)
        sec == section_text(t, span)
        r == IF span[1] # -1
             THEN projects_section(Hits(sec, "title_patterns"), Hits(sec, "action_count"),
                                   Hits(sec, "tech_indicators"), Hits(sec, "bullets"),
                                   Hits(sec, "github_links"))
             ELSE FellThrough
    IN  IF r.returned THEN r.value
        ELSE projects_fallback(Hits(t, "project_fallback"))

count_certifications(t) ==
    LET span == find_section(t, cert_headers)
        sec == section_text(t, span)
        r == IF span[1] # -1
             THEN certifications_section(Hits(sec, "bullets"), Hits(sec, "platform_count"),
                                         Hits(sec, "cert_keywords"), Hits(sec, "dates"),
                                         Hits(sec, "common_certs"))
             ELSE FellThrough
    IN  IF r.returned THEN r.value
        ELSE certifications_fallback(Hits(t, "cert_fallback"))

\* found_skills: the vocabulary terms found anywhere in the text.
found_skills(t) == UNION {LineSkills(t[k]) : k \in 1..Len(t)}

count_skills(t) ==
    LET span == find_section(t, skill_headers)
        found == span[1] # -1
        separators == IF found THEN Hits(section_text(t, span), "separators") ELSE 0
    IN  skills_total(Cardinality(found_skills(t)), found, separators)

count_achievements(t) ==
    LET span == find_section(t, achievement_headers)
        sec == section_text(t, span)
        extra == find_section(t, extra_headers)
        extra_sec == section_text(t, extra)
        total_count ==
            achievements_total(span[1] # -1, Hits(sec, "bullets"),
                               Hits(sec, "pattern_matches"), extra[1] # -1,
                               Hits(extra_sec, "leadership_count"))
    IN  achievements_count(total_count, Hits(t, "cert_as_achievement"))

\* The spans the counters of parse_resume get from find_section; count_achievements
\* asks twice.
located(t) ==
    [internships     |-> find_section(t, exp_headers),
     projects        |-> find_section(t, project_headers),
     certifications  |-> find_section(t, cert_headers),
     skills          |-> find_section(t, skill_headers),
     achievements    |-> find_section(t, achievement_headers),
     extracurricular |-> find_section(t, extra_headers)]

\* The metrics record of parse_resume for a text that is not blank.
parse_resume(t) ==
    [internships    |-> count_internships(t),
     projects       |-> count_projects(t),
     certifications |-> count_certifications(t),
     skills         |-> count_skills(t),
     achievements   |-> count_achievements(t)]

(***************************************************************************)
(* Actions of the scoring pipeline                                         *)
(***************************************************************************)

CalculateResumeScore ==
    /\ pc = "score"
    /\ scores' = calculate_resume_score(metrics)
    /\ pc' = "display"
    /\ UNCHANGED <<text, spans, metrics, tier, counter, raw, fallback_count, count>>
    /\ UNCHANGED ratingVars

DisplayBreakdown ==
    /\ pc = "display"
    /\ tier' = tier_of(scores.total_score)
    /\ pc' = "done"
    /\ UNCHANGED <<text, spans, metrics, scores, counter, raw, fallback_count, count>>
    /\ UNCHANGED ratingVars

ParseResume ==
    /\ pc = "parse"
    /\ spans' = located(text)
    /\ metrics' = parse_resume(text)
    /\ pc' = "score"
    /\ UNCHANGED <<text, scores, tier, counter, raw, fallback_count, count>>
    /\ UNCHANGED ratingVars

\* The metrics records parse_resume can return: every field within its counter's cap.
CappedMetrics ==
    [internships: 0..5, projects: 0..8, certifications: 0..10,
     skills: 0..30, achievements: 0..8]

NotEvaluated == [evaluated |-> FALSE]

InitScore ==
    /\ pc = "score"
    /\ text = <<>>
    /\ spans = NoValue
    /\ metrics \in CappedMetrics
    /\ scores = NoValue
    /\ tier = ""
    /\ counter = ""
    /\ raw = NoValue
    /\ fallback_count = NotEvaluated
    /\ count = NoValue
    /\ NoRequest

(***************************************************************************)
(* SpecSig: one counter applied to the pattern counts of a section         *)
(***************************************************************************)

\* Bounds of the pattern counts drawn.
MaxHits == 11

MaxHalved == 5

MaxBullets == 12

MaxSkills == 32

MaxSeparators == 40

MaxFallback == 11

\* The pattern counts count_internships reads: found is start != -1.
InternshipsInputs ==
    [found: {TRUE}, date_patterns: 0..MaxHits, company_patterns: 0..MaxHits,
     role_count: 0..MaxHits, bullets: 0..MaxBullets]
    \cup [found: {FALSE}]

ProjectsInputs ==
    [found: {TRUE}, title_patterns: 0..MaxHits, action_count: 0..MaxHalved,
     tech_indicators: 0..MaxHalved, bullets: 0..MaxBullets, github_links: 0..MaxHits]
    \cup [found: {FALSE}]

CertificationsInputs ==
    [found: {TRUE}, bullets: 0..MaxBullets, platform_count: 0..MaxHits,
     cert_keywords: 0..MaxHalved, dates: 0..MaxHalved, common_certs: 0..MaxHalved]
    \cup [found: {FALSE}]

SkillsInputs ==
    [found: {TRUE}, found_skills: 0..MaxSkills, separators: 0..MaxSeparators]
    \cup [found: {FALSE}, found_skills: 0..MaxSkills, separators: {0}]

AchievementsInputs ==
    [found: {TRUE}, bullets: 0..MaxBullets, pattern_matches: 0..MaxHits,
     extra_found: {TRUE}, leadership_count: 0..(2 * MaxHits)]
    \cup [found: {TRUE}, bullets: 0..MaxBullets, pattern_matches: 0..MaxHits,
          extra_found: {FALSE}, leadership_count: {0}]
    \cup [found: {FALSE}, bullets: {0}, pattern_matches: {0},
          extra_found: {TRUE}, leadership_count: 0..(2 * MaxHits)]
    \cup [found: {FALSE}, bullets: {0}, pattern_matches: {0},
          extra_found: {FALSE}, leadership_count: {0}]

InitSig ==
    /\ pc = "count"
    /\ text = <<>>
    /\ spans = NoValue
    /\ metrics = NoValue
    /\ scores = NoValue
    /\ tier = ""
    /\ \/ counter = "internships" /\ raw \in InternshipsInputs
       \/ counter = "projects" /\ raw \in ProjectsInputs
       \/ counter = "certifications" /\ raw \in CertificationsInputs
       \/ counter = "skills" /\ raw \in SkillsInputs
       \/ counter = "achievements" /\ raw \in AchievementsInputs
    /\ fallback_count = NotEvaluated
    /\ count = NoValue
    /\ NoRequest

\* A counter's return: the section branch's value, or the fallback on the n matches
\* of the global pattern, which is searched only when the section branch fell through.
Finish(section, n, fallback) ==
    /\ section.returned => n = 0
    /\ count' = IF section.returned THEN section.value ELSE fallback
    /\ fallback_count' = IF section.returned THEN NotEvaluated ELSE Evaluated(n)
    /\ pc' = "counted"
    /\ UNCHANGED <<text, spans, metrics, scores, tier, counter, raw>>
    /\ UNCHANGED ratingVars

CountInternships ==
    /\ pc = "count"
    /\ counter = "internships"
    /\ \E n \in 0..MaxFallback :
          Finish(IF raw.found
                 THEN internships_section(raw.date_patterns, raw.company_patterns,
                                          raw.role_count, raw.bullets)
                 ELSE FellThrough,
                 n, internships_fallback(n))

CountProjects ==
    /\ pc = "count"
    /\ counter = "projects"
    /\ \E n \in 0..MaxFallback :
          Finish(IF raw.found
                 THEN projects_section(raw.title_patterns, raw.action_count,
                                       raw.tech_indicators, raw.bullets,
                                       raw.github_links)
                 ELSE FellThrough,
                 n, projects_fallback(n))

CountCertifications ==
    /\ pc = "count"
    /\ counter = "certifications"
    /\ \E n \in 0..MaxFallback :
          Finish(IF raw.found
                 THEN certifications_section(raw.bullets, raw.platform_count,
                                             raw.cert_keywords, raw.dates,
                                             raw.common_certs)
                 ELSE FellThrough,
                 n, certifications_fallback(n))

CountSkills ==
    /\ pc = "count"
    /\ counter = "skills"
    /\ count' = skills_total(raw.found_skills, raw.found, raw.separators)
    /\ pc' = "counted"
    /\ UNCHANGED <<text, spans, metrics, scores, tier, counter, raw, fallback_count>>
    /\ UNCHANGED ratingVars

CountAchievements ==
    /\ pc = "count"
    /\ counter = "achievements"
    /\ LET total_count == achievements_total(raw.found, raw.bullets, raw.pattern_matches,
                                             raw.extra_found, raw.leadership_count)
       IN  \E n \in 0..MaxFallback :
              /\ total_count # 0 => n = 0
              /\ count' = achievements_count(total_count, n)
              /\ fallback_count' = IF total_count = 0 THEN Evaluated(n) ELSE NotEvaluated
    /\ pc' = "counted"
    /\ UNCHANGED <<text, spans, metrics, scores, tier, counter, raw>>
    /\ UNCHANGED ratingVars

NextSig ==
    \/ CountInternships
    \/ CountProjects
    \/ CountCertifications
    \/ CountSkills
    \/ CountAchievements

SpecSig == InitSig /\ [][NextSig]_vars

(***************************************************************************)
(* Spec: a text through parse_resume, calculate_resume_score and the tier  *)
(***************************************************************************)

\* The longest text drawn, in lines.
MaxLines == 4

Texts == UNION {[1..n -> Lines] : n \in 1..MaxLines}

Init ==
    /\ pc = "parse"
    /\ text \in Texts
    /\ spans = NoValue
    /\ metrics = NoValue
    /\ scores = NoValue
    /\ tier = ""
    /\ counter = ""
    /\ raw = NoValue
    /\ fallback_count = NotEvaluated
    /\ count = NoValue
    /\ NoRequest

Next == ParseResume \/ CalculateResumeScore \/ DisplayBreakdown

Spec == Init /\ [][Next]_vars

NextScore == CalculateResumeScore \/ DisplayBreakdown

SpecScore == InitScore /\ [][NextScore]_vars

(***************************************************************************)
(* compute_elo (src/core/scorer.py)                                        *)
(*                                                                         *)
(* The source computes in Python floats (IEEE 754 binary64). A float is    *)
(* held here as a natural number of units of Base^-FracDigits, written in  *)
(* digits of base Base, least significant first; an operation is the exact *)
(* operation followed by rounding to Precision significant bits, ties to   *)
(* even.                                                                   *)
(***************************************************************************)

\* The significant bits of a binary64.
Precision == 53

\* The bits of a digit, and the base 2^DigitBits.
DigitBits == 13

Base == 8192

\* The digits kept below the unit (78 bits): enough for every quotient of
\* compute_elo to have more than Precision bits before it is rounded.
FracDigits == 6

RECURSIVE DigitsOf(_)
\* The digits of a natural number, least significant first.
DigitsOf(n) == IF n = 0 THEN <<>> ELSE <<n % Base>> \o DigitsOf(n \div Base)

RECURSIVE NatOf(_)
\* The natural number of a sequence of digits.
NatOf(b) == IF b = <<>> THEN 0 ELSE Head(b) + Base * NatOf(Tail(b))

Zeros(n) == [i \in 1..n |-> 0]

RECURSIVE Trim(_)
\* b without its leading zero digits.
Trim(b) ==
    IF b = <<>> \/ b[Len(b)] # 0 THEN b ELSE Trim(SubSeq(b, 1, Len(b) - 1))

RECURSIVE Pow2(_)
Pow2(s) == IF s = 0 THEN 1 ELSE 2 * Pow2(s - 1)

RECURSIVE BitLen(_)
\* The number of bits of a natural number.
BitLen(n) == IF n = 0 THEN 0 ELSE 1 + BitLen(n \div 2)

\* The number of bits of a number without leading zero digits.
Bits(b) == IF b = <<>> THEN 0 ELSE DigitBits * (Len(b) - 1) + BitLen(b[Len(b)])

RECURSIVE AddCarry(_, _, _)
\* a + b + c, exactly; c is the carry.
AddCarry(a, b, c) ==
    IF a = <<>> /\ b = <<>> THEN DigitsOf(c)
    ELSE LET x == IF a = <<>> THEN 0 ELSE Head(a)
             y == IF b = <<>> THEN 0 ELSE Head(b)
             v == x + y + c
         IN  <<v % Base>> \o AddCarry(IF a = <<>> THEN <<>> ELSE Tail(a),
                                      IF b = <<>> THEN <<>> ELSE Tail(b), v \div Base)

RECURSIVE MulCarry(_, _, _)
\* b * k + c, exactly, for a small natural number k.
MulCarry(b, k, c) ==
    IF b = <<>> THEN DigitsOf(c)
    ELSE LET v == Head(b) * k + c
         IN  <<v % Base>> \o MulCarry(Tail(b), k, v \div Base)

RECURSIVE DivRem(_, _, _, _)
\* Long division of b by a small natural number k, from the most significant
\* digit: r is the remainder and q the quotient of the digits taken so far.
DivRem(b, k, r, q) ==
    IF b = <<>> THEN [q |-> q, r |-> r]
    ELSE LET v == Base * r + b[Len(b)]
         IN  DivRem(SubSeq(b, 1, Len(b) - 1), k, v % k, <<v \div k>> \o q)

RECURSIVE FromHex(_)
\* The number written in hexadecimal digits, most significant first.
FromHex(h) ==
    IF h = <<>> THEN <<>>
    ELSE MulCarry(FromHex(SubSeq(h, 1, Len(h) - 1)), 16, h[Len(h)])

\* The binary64 nearest to b, ties to even; inexact says that b itself was
\* cut below its last digit. The d bits below the precision are w digits and
\* s bits of the next one.
RoundFloat(b, inexact) ==
    LET t == Trim(b)
        d == Bits(t) - Precision
    IN  IF d <= 0 THEN t
        ELSE LET w == d \div DigitBits
                 s == d % DigitBits
                 qr == DivRem(SubSeq(t, w + 1, Len(t)), Pow2(s), 0, <<>>)
                 \* the cut bits against one half of the last bit kept: 1, 0, -1
                 half == IF s > 0 THEN Pow2(s - 1) ELSE Base \div 2
                 lead == IF s > 0 THEN qr.r ELSE t[w]
                 rest == IF s > 0 THEN w ELSE w - 1
                 cmp == IF lead > half THEN 1
                        ELSE IF lead < half THEN -1
                        ELSE IF \A i \in 1..rest : t[i] = 0 THEN 0 ELSE 1
                 up == cmp = 1 \/ (cmp = 0 /\ (inexact \/ qr.q[1] % 2 = 1))
                 kept == IF up THEN AddCarry(qr.q, <<1>>, 0) ELSE qr.q
             IN  Zeros(w) \o MulCarry(kept, Pow2(s), 0)

\* float(n) of an integer n.
FloatOf(n) == Zeros(FracDigits) \o DigitsOf(n)

\* The literals 0.4 and 0.3: 0x1999999999999A * 2^-54 and
\* 0x13333333333333 * 2^-54, in units of 2^-78.
Float04 ==
    MulCarry(MulCarry(FromHex(<<1, 9, 9, 9, 9, 9, 9, 9, 9, 9, 9, 9, 9, 10>>),
                      Pow2(12), 0), Pow2(12), 0)

Float03 ==
    MulCarry(MulCarry(FromHex(<<1, 3, 3, 3, 3, 3, 3, 3, 3, 3, 3, 3, 3, 3>>),
                      Pow2(12), 0), Pow2(12), 0)

\* x * n, x + y and x / n of floats, n the float of a small integer.
FloatMul(x, n) == RoundFloat(MulCarry(x, n, 0), FALSE)

FloatAdd(x, y) == RoundFloat(AddCarry(x, y, 0), FALSE)

FloatDiv(x, n) ==
    LET qr == DivRem(x, n, 0, <<>>)
    IN  RoundFloat(qr.q, qr.r # 0)

\* int(x) of a float that is not negative.
IntOf(x) == NatOf(SubSeq(x, FracDigits + 1, Len(x)))

compute_elo(scores_in) ==
    LET final_raw_score ==
            FloatAdd(FloatAdd(FloatMul(Float04, scores_in.leetcode_score),
                              FloatMul(Float03, scores_in.github_score)),
                     FloatMul(Float03, scores_in.resume_score))
        elo == FloatAdd(FloatOf(1000), FloatMul(FloatDiv(final_raw_score, 100), 1500))
    IN  IntOf(elo)

(***************************************************************************)
(* parse_resume on a file, and calculate_rating (src/main.py)              *)
(***************************************************************************)

\* An exception raised, with its class and its str(); a value returned.
Raised(kind, message) == [raised |-> TRUE, kind |-> kind, message |-> message]

Result(value) == [raised |-> FALSE, value |-> value]

\* extract_resume_text: the suffix selects the extractor; file.readable is
\* whether the extractor of a .pdf or .docx file can run.
extract_resume_text(file) ==
    CASE file.suffix = ".pdf" ->
            IF file.readable THEN Result(file.content)
            ELSE Raised("ImportError", "PyPDF2 is required to parse PDF files")
      [] file.suffix = ".docx" ->
            IF file.readable THEN Result(file.content)
            ELSE Raised("ImportError", "python-docx is required to parse DOCX files")
      [] file.suffix = ".txt" -> Result(file.content)
      [] OTHER ->
            Raised("ValueError",
                   "Unsupported file format: .doc. Supported: .pdf, .docx, .txt")

\* The mutant of Blank: only the empty text is rejected (`if not text:`).
Blank_empty_only(t) == t = <<>>

\* not text.strip(): the text has no character other than line breaks.
Blank(t) == \A i \in 1..Len(t) : t[i] = ""

\* parse_resume on a file: the metrics it returns (NoValue is None) and the
\* exception its `except Exception` caught. fault is the counter in which an
\* exception is raised while the metrics are collected, "" when there is none.
parse_resume_file(file, fault) ==
    LET extracted == extract_resume_text(file)
    IN  IF extracted.raised THEN [metrics |-> NoValue, error |-> extracted]
        ELSE IF Blank(extracted.value)
        THEN [metrics |-> NoValue,
              error |-> Raised("ValueError", "Could not extract text from resume")]
        ELSE IF fault # ""
        THEN [metrics |-> NoValue, error |-> Raised("MemoryError", "")]
        ELSE [metrics |-> parse_resume(extracted.value), error |-> NoValue]

\* The longest uploaded text, in lines.
MaxUploadLines == 1

\* The texts of the uploads: the empty text, a text of one line break, and
\* texts of the lines of Lines.
UploadTexts ==
    {<<>>, <<"">>} \cup UNION {[1..n -> Lines] : n \in 1..MaxUploadLines}

\* The uploads: a file of a supported or unsupported suffix, and a .pdf or
\* .docx file whose extractor cannot run.
Uploads ==
    [suffix: {".pdf", ".docx", ".txt", ".doc"}, readable: {TRUE}, content: UploadTexts]
    \cup [suffix: {".pdf", ".docx"}, readable: {FALSE}, content: {<<>>}]

\* The scores drawn for get_leetcode_data and get_github_data, of 0..100.
SampleScores == {0, 100}

\* get_leetcode_data: a record with a score, or a ValueError.
FetchLeetCode ==
    /\ pc = "leetcode"
    /\ \/ \E s \in SampleScores :
             /\ leetcode_data' = [score |-> s]
             /\ pc' = "github"
             /\ UNCHANGED exception
       \/ /\ exception' = Raised("ValueError", "Error processing LeetCode data")
          /\ pc' = "except"
          /\ UNCHANGED leetcode_data
    /\ UNCHANGED <<text, spans, metrics, scores, tier, counter, raw, fallback_count, count>>
    /\ UNCHANGED <<github_data, resume, tmp_file, error, platform_scores, elo_rating,
                   response>>

\* get_github_data: a record with a score, or a ValueError.
FetchGitHub ==
    /\ pc = "github"
    /\ \/ \E s \in SampleScores :
             /\ github_data' = [score |-> s]
             /\ pc' = "upload"
             /\ UNCHANGED exception
       \/ /\ exception' = Raised("ValueError", "Network error when fetching GitHub data")
          /\ pc' = "except"
          /\ UNCHANGED github_data
    /\ UNCHANGED <<text, spans, metrics, scores, tier, counter, raw, fallback_count, count>>
    /\ UNCHANGED <<leetcode_data, resume, tmp_file, error, platform_scores, elo_rating,
                   response>>

\* The `with tempfile.NamedTemporaryFile(delete=False, ...)` block: the file is
\* created, then the upload is read and written to it, which can fail.
SaveUpload ==
    /\ pc = "upload"
    /\ \E file \in Uploads : resume' = file
    /\ tmp_file' = "exists"
    /\ \/ /\ pc' = "parse"
          /\ UNCHANGED exception
       \/ /\ exception' = Raised("OSError", "No space left on device")
          /\ pc' = "except"
    /\ UNCHANGED <<text, spans, metrics, scores, tier, counter, raw, fallback_count, count>>
    /\ UNCHANGED <<leetcode_data, github_data, error, platform_scores, elo_rating,
                   response>>

\* metrics = resume_parser.parse_resume(tmp_file_path)
ParseResumeFile ==
    /\ pc = "parse"
    /\ LET extracted == extract_resume_text(resume)
           analysed == ~extracted.raised /\ ~Blank(extracted.value)
       IN  \E fault \in {""} \cup MetricKeys :
              /\ ~analysed => fault = ""
              /\ counter' = fault
              /\ metrics' = parse_resume_file(resume, fault).metrics
              /\ error' = parse_resume_file(resume, fault).error
              /\ text' = IF extracted.raised THEN text ELSE extracted.value
              /\ spans' = IF analysed /\ fault = "" THEN located(extracted.value)
                          ELSE spans
    /\ pc' = "check"
    /\ UNCHANGED <<scores, tier, raw, fallback_count, count>>
    /\ UNCHANGED <<leetcode_data, github_data, resume, tmp_file, exception,
                   platform_scores, elo_rating, response>>

\* `if not metrics: raise ValueError(...)`, else calculate_resume_score and
\* resume_data.
CheckMetrics ==
    /\ pc = "check"
    /\ IF metrics = NoValue
       THEN /\ exception' = Raised("ValueError", "Failed to parse resume")
            /\ UNCHANGED scores
       ELSE /\ scores' = calculate_resume_score(metrics)
            /\ UNCHANGED exception
    /\ pc' = "unlink"
    /\ UNCHANGED <<text, spans, metrics, tier, counter, raw, fallback_count, count>>
    /\ UNCHANGED <<leetcode_data, github_data, resume, tmp_file, error,
                   platform_scores, elo_rating, response>>

\* finally: os.unlink(tmp_file_path)
Unlink ==
    /\ pc = "unlink"
    /\ tmp_file' = "deleted"
    /\ pc' = IF exception # NoValue THEN "except" ELSE "platform"
    /\ UNCHANGED engineVarsButPc
    /\ UNCHANGED <<leetcode_data, github_data, resume, error, exception,
                   platform_scores, elo_rating, response>>

\* platform_scores = {...}
CompileScores ==
    /\ pc = "platform"
    /\ platform_scores' = [leetcode_score |-> leetcode_data.score,
                           github_score   |-> github_data.score,
                           resume_score   |-> scores.total_score]
    /\ pc' = "elo"
    /\ UNCHANGED engineVarsButPc
    /\ UNCHANGED <<leetcode_data, github_data, resume, tmp_file, error, exception,
                   elo_rating, response>>

\* elo_rating = scorer.compute_elo(platform_scores)
ComputeElo ==
    /\ pc = "elo"
    /\ elo_rating' = compute_elo(platform_scores)
    /\ pc' = "return"
    /\ UNCHANGED engineVarsButPc
    /\ UNCHANGED <<leetcode_data, github_data, resume, tmp_file, error, exception,
                   platform_scores, response>>

\* return {...}
Return ==
    /\ pc = "return"
    /\ response' = [status |-> 200, elo_rating |-> elo_rating,
                    platform_scores |-> platform_scores]
    /\ pc' = "done"
    /\ UNCHANGED engineVarsButPc
    /\ UNCHANGED <<leetcode_data, github_data, resume, tmp_file, error, exception,
                   platform_scores, elo_rating>>

\* except Exception as e: raise HTTPException(status_code=400, detail=str(e))
Except ==
    /\ pc = "except"
    /\ response' = [status |-> 400, detail |-> exception.message]
    /\ pc' = "done"
    /\ UNCHANGED engineVarsButPc
    /\ UNCHANGED <<leetcode_data, github_data, resume, tmp_file, error, exception,
                   platform_scores, elo_rating>>

(***************************************************************************)
(* SpecRating: a request to calculate_rating                               *)
(***************************************************************************)

InitRating ==
    /\ pc = "leetcode"
    /\ text = <<>>
    /\ spans = NoValue
    /\ metrics = NoValue
    /\ scores = NoValue
    /\ tier = ""
    /\ counter = ""
    /\ raw = NoValue
    /\ fallback_count = NotEvaluated
    /\ count = NoValue
    /\ NoRequest

NextRating ==
    \/ FetchLeetCode
    \/ FetchGitHub
    \/ SaveUpload
    \/ ParseResumeFile
    \/ CheckMetrics
    \/ Unlink
    \/ CompileScores
    \/ ComputeElo
    \/ Return
    \/ Except

SpecRating == InitRating /\ [][NextRating]_vars

(***************************************************************************)
(* SpecElo: compute_elo applied to a platform_scores record                *)
(***************************************************************************)

\* The platform_scores records drawn: every leetcode_score and github_score of
\* 0..100, and for resume_score the two ends of 0..100 and two values between.
EloInputs ==
    [leetcode_score: 0..100, github_score: 0..100, resume_score: {0, 6, 98, 100}]

InitElo ==
    /\ pc = "elo"
    /\ text = <<>>
    /\ spans = NoValue
    /\ metrics = NoValue
    /\ scores = NoValue
    /\ tier = ""
    /\ counter = ""
    /\ raw = NoValue
    /\ fallback_count = NotEvaluated
    /\ count = NoValue
    /\ leetcode_data = NoValue
    /\ github_data = NoValue
    /\ resume = NoValue
    /\ tmp_file = "none"
    /\ error = NoValue
    /\ exception = NoValue
    /\ platform_scores \in EloInputs
    /\ elo_rating = NoValue
    /\ response = NoValue

NextElo == ComputeElo \/ Return

SpecElo == InitElo /\ [][NextElo]_vars

(***************************************************************************)
(* Properties                                                              *)
(***************************************************************************)

\* The cap of each metric.
Cap(c) ==
    CASE c = "internships" -> 5
      [] c = "projects" -> 8
      [] c = "certifications" -> 10
      [] c = "skills" -> 30
      [] c = "achievements" -> 8

\* C1: on every path through a counter (section found with nonzero signals,
\* section found with all signals zero, section not found) the count it returns
\* lies within 0..cap: 0..5 internships, 0..8 projects, 0..10 certifications,
\* 0..30 skills, 0..8 achievements.
C1_CountsWithinCaps ==
    pc = "counted" => count \in 0..Cap(counter)

\* A projects section whose five signals are all zero, nine fallback matches,
\* and the count clamped to 8.
C1_Witness ==
    /\ pc = "counted"
    /\ counter = "projects"
    /\ raw.found
    /\ raw.title_patterns = 0 /\ raw.action_count = 0 /\ raw.tech_indicators = 0
    /\ raw.bullets = 0 /\ raw.github_links = 0
    /\ fallback_count.evaluated
    /\ fallback_count.n = 9
    /\ count = 8

\* C2: for a metrics record within the caps, total_score is an integer within
\* 0..100 and every per-metric score lies within 0..weight (30, 25, 20, 15, 10;
\* in hundredths here).
C2_ScoreWithinBounds ==
    (pc \in {"display", "done"} /\ metrics \in CappedMetrics) =>
        /\ scores.total_score \in 0..100
        /\ scores.internships_score \in 0..3000
        /\ scores.projects_score \in 0..2500
        /\ scores.certifications_score \in 0..2000
        /\ scores.skills_score \in 0..1500
        /\ scores.achievements_score \in 0..1000

\* Five internships, above the 3 the score normalizes by, earn exactly 30.00.
C2_Witness ==
    /\ pc = "done"
    /\ metrics.internships = 5
    /\ scores.internships_score = 3000
    /\ scores.total_score = 30

AtCaps ==
    [internships |-> 5, projects |-> 8, certifications |-> 10,
     skills |-> 30, achievements |-> 8]

\* C3: the five weights sum to 100, and the metrics record with every field at
\* its cap scores a total of 100.
C3_WeightConservation ==
    /\ weights.internships + weights.projects + weights.certifications
       + weights.skills + weights.achievements = 100
    /\ (pc \in {"display", "done"} /\ metrics = AtCaps) => scores.total_score = 100

C3_Witness ==
    /\ pc = "done"
    /\ metrics = AtCaps
    /\ scores.total_score = 100

AllSpans ==
    {"internships", "projects", "certifications", "skills", "achievements",
     "extracurricular"}

\* No pattern, fallback pattern or vocabulary term matches in any line of t.
Quiet(t) ==
    \A i \in 1..Len(t) : LineHits(t[i]) = NoHits /\ LineSkills(t[i]) = {}

\* C4: a text in which no counter locates a section header and nothing matches
\* any pattern yields five zero metrics, total score 0 and tier E.
C4_ZeroInput ==
    (/\ pc # "parse"
     /\ \A c \in AllSpans : spans[c] = <<-1, -1>>
     /\ Quiet(text)) =>
        /\ \A key \in MetricKeys : metrics[key] = 0
        /\ pc \in {"display", "done"} => scores.total_score = 0
        /\ pc = "done" => tier = "E"

\* A header on the first line is not located: the text scores 0, tier E.
C4_Witness ==
    /\ pc = "done"
    /\ text = <<"projects", "john doe", "education">>
    /\ \A c \in AllSpans : spans[c] = <<-1, -1>>
    /\ metrics.projects = 0
    /\ scores.total_score = 0
    /\ tier = "E"

TierRank(t) ==
    CASE t = "S" -> 6 [] t = "A" -> 5 [] t = "B" -> 4
      [] t = "C" -> 3 [] t = "D" -> 2 [] t = "E" -> 1

\* C5: the tier is S from 90, A from 80, B from 70, C from 55, D from 40 and E
\* below 40, for every total in 0..100; no lower total gets a higher tier.
C5_TierTable ==
    pc = "done" =>
        LET total == scores.total_score
        IN  /\ total \in 0..100
            /\ tier \in {"S", "A", "B", "C", "D", "E"}
            /\ tier = "S" <=> total >= 90
            /\ tier = "A" <=> (80 <= total /\ total < 90)
            /\ tier = "B" <=> (70 <= total /\ total < 80)
            /\ tier = "C" <=> (55 <= total /\ total < 70)
            /\ tier = "D" <=> (40 <= total /\ total < 55)
            /\ tier = "E" <=> total < 40
            /\ \A lower \in 0..total : TierRank(tier_of(lower)) <= TierRank(tier)

\* The lowest total of tier C.
C5_Witness ==
    /\ pc = "done"
    /\ scores.total_score = 55
    /\ tier = "C"

\* The lines of t on which a candidate of project_headers stands as a header.
ProjectHeaderLines(t) ==
    {i \in 2..Len(t) : \E k \in 1..Len(project_headers) : t[i] = project_headers[k]}

\* C6 as stated: with two header lines matching candidates of the projects list,
\* the span starts after the header that comes first in the text.
C6_FirstHeaderInDocumentOrder ==
    (pc # "parse" /\ Cardinality(ProjectHeaderLines(text)) >= 2) =>
        spans.projects[1] = LineStart(text, Least(ProjectHeaderLines(text)) + 1)

\* C6 amended: the span starts after the first occurrence of the candidate that
\* comes first in the candidate list among those present in the text.
C6_FirstOccurrenceOfFirstCandidate ==
    (pc # "parse" /\ Cardinality(ProjectHeaderLines(text)) >= 2) =>
        LET k == Least({c \in 1..Len(project_headers) :
                          \E i \in 2..Len(text) : text[i] = project_headers[c]})
            i == Least({l \in 2..Len(text) : text[l] = project_headers[k]})
        IN  spans.projects[1] = LineStart(text, i + 1)

\* "personal projects" stands before "projects", and the span starts after "projects".
C6_Witness ==
    /\ pc # "parse"
    /\ \E i, j \in 2..Len(text) :
          /\ i < j
          /\ text[i] = "personal projects"
          /\ text[j] = "projects"
          /\ spans.projects[1] = LineStart(text, j + 1)

\* m is the element at rank len // 2 (from 0) of the nonzero indicators in
\* ascending order, stated without sorting.
MiddleRank(indicators, m) ==
    LET P == {p \in 1..Len(indicators) : indicators[p] > 0}
        n == Cardinality(P)
    IN  /\ \E p \in P : indicators[p] = m
        /\ Cardinality({p \in P : indicators[p] < m}) <= n \div 2
        /\ Cardinality({p \in P : indicators[p] <= m}) > n \div 2
        /\ \A p \in P : \A q \in P :
              (\A r \in P : indicators[p] <= indicators[r] /\ indicators[r] <= indicators[q])
                  => (indicators[p] <= m /\ m <= indicators[q])

HasNonzero(indicators) == \E p \in 1..Len(indicators) : indicators[p] > 0

\* C7: median reconciliation (internships, projects) drops the zero signals and
\* returns the element at the middle rank of the rest, one of the nonzero signals
\* between their least and greatest: [2, 4, 6] gives 4, [0, 0, 5] gives 5. Max
\* reconciliation (certifications) returns the greatest signal: [1, 3, 2] gives 3.
C7_Reconciliation ==
    /\ median(valid_indicators(<<2, 4, 6>>)) = 4
    /\ median(valid_indicators(<<0, 0, 5>>)) = 5
    /\ max_of(<<1, 3, 2>>) = 3
    /\ (pc = "counted" /\ counter = "internships" /\ raw.found) =>
          LET ind == internships_indicators(raw.date_patterns, raw.company_patterns,
                                            raw.role_count, raw.bullets)
          IN  HasNonzero(ind) =>
                \E m \in {ind[p] : p \in 1..Len(ind)} :
                    MiddleRank(ind, m) /\ count = Min(m, 5)
    /\ (pc = "counted" /\ counter = "projects" /\ raw.found) =>
          LET ind == projects_indicators(raw.title_patterns, raw.action_count,
                                         raw.tech_indicators, raw.bullets,
                                         raw.github_links)
          IN  HasNonzero(ind) =>
                \E m \in {ind[p] : p \in 1..Len(ind)} :
                    MiddleRank(ind, m) /\ count = Min(Max(m, 1), 8)
    /\ (pc = "counted" /\ counter = "certifications" /\ raw.found) =>
          LET ind == certifications_indicators(raw.bullets, raw.platform_count,
                                               raw.cert_keywords, raw.dates,
                                               raw.common_certs)
          IN  \E p \in 1..Len(ind) :
                /\ \A q \in 1..Len(ind) : ind[q] <= ind[p]
                /\ count = Min(ind[p], 10)

\* The internships indicators [2, 4, 6, 0] reconcile to 4.
C7_Witness ==
    /\ pc = "counted"
    /\ counter = "internships"
    /\ raw.found
    /\ raw.date_patterns = 2 /\ raw.company_patterns = 4 /\ raw.role_count = 6
    /\ raw.bullets = 0
    /\ count = 4

\* C8 as stated: an Experience section with 2 date ranges and 8 bullets counts 2
\* internships, whatever the organization and role signals are.
C8_TwoDatesEightBullets ==
    (/\ pc = "counted"
     /\ counter = "internships"
     /\ raw.found
     /\ raw.date_patterns = 2
     /\ raw.bullets = 8) => count = 2

\* C8 amended: the count is 2 unless the organization signal and the role signal
\* both exceed 2, and then it is the lesser of the two, capped at 5.
C8_TwoUnlessBothOthersExceed ==
    (/\ pc = "counted"
     /\ counter = "internships"
     /\ raw.found
     /\ raw.date_patterns = 2
     /\ raw.bullets = 8) =>
        count = IF raw.company_patterns > 2 /\ raw.role_count > 2
                THEN Min(Min(raw.company_patterns, raw.role_count), 5)
                ELSE 2

\* Two dates, eight bullets, one organization hit and seven role hits: 2.
C8_Witness ==
    /\ pc = "counted"
    /\ counter = "internships"
    /\ raw.found
    /\ raw.date_patterns = 2
    /\ raw.bullets = 8
    /\ raw.company_patterns = 1
    /\ raw.role_count = 7
    /\ count = 2

\* C9: count_skills returns min(30, h + b div 2), h the vocabulary terms found,
\* s the separators of the located skills section (0 without one), b = s - h when
\* s > h and 0 otherwise; with s <= h it is min(h, 30), and it is never less.
C9_SkillsFormula ==
    (pc = "counted" /\ counter = "skills") =>
        LET h == raw.found_skills
            s == IF raw.found THEN raw.separators ELSE 0
            b == IF s > h THEN s - h ELSE 0
        IN  /\ count = Min(30, h + (b \div 2))
            /\ s <= h => count = Min(h, 30)
            /\ count >= Min(h, 30)

\* Five terms and ten separators: a bonus of 5, half of it added.
C9_Witness ==
    /\ pc = "counted"
    /\ counter = "skills"
    /\ raw.found
    /\ raw.found_skills = 5
    /\ raw.separators = 10
    /\ count = 7

\* C10: a counter (internships, projects, certifications) that locates no header
\* returns min(n, cap), n the matches of its global fallback pattern in the whole
\* text; one match and no certifications header give certifications = 1.
C10_FallbackWhenNoHeader ==
    pc # "parse" =>
        /\ spans.internships = <<-1, -1>> =>
              metrics.internships = Min(Hits(text, "intern_fallback"), 5)
        /\ spans.projects = <<-1, -1>> =>
              metrics.projects = Min(Hits(text, "project_fallback"), 8)
        /\ spans.certifications = <<-1, -1>> =>
              metrics.certifications = Min(Hits(text, "cert_fallback"), 10)
        /\ (spans.certifications = <<-1, -1>> /\ Hits(text, "cert_fallback") = 1) =>
              metrics.certifications = 1

\* "aws certified" once in the body, no certifications header: one certification.
C10_Witness ==
    /\ pc # "parse"
    /\ text = <<"john doe", "aws certified", "education">>
    /\ spans.certifications = <<-1, -1>>
    /\ metrics.certifications = 1

\* parse_resume has returned to calculate_rating.
Parsed == pc \in {"check", "unlink"} \/ tmp_file = "deleted"

\* The cases in which the analysis of the upload fails: the suffix is not
\* supported, the extractor cannot run, the text has no character other than
\* line breaks, or a counter raises.
AnalysisFails ==
    \/ resume.suffix \notin {".pdf", ".docx", ".txt"}
    \/ ~resume.readable
    \/ \A i \in 1..Len(resume.content) : resume.content[i] = ""
    \/ counter # ""

\* C11: resume analysis is all-or-nothing. Once parse_resume has returned, the
\* metrics are either None or a record of all five metrics; when extraction
\* fails, the text is empty or whitespace-only, or a counter raises, the
\* metrics are None, and calculate_rating never computes a resume score (nor
\* platform scores, nor a rating) from them; in every other case all five
\* metrics are returned.
C11_AllOrNothing ==
    Parsed =>
        /\ metrics = NoValue \/ DOMAIN metrics = MetricKeys
        /\ AnalysisFails =>
              /\ metrics = NoValue
              /\ scores = NoValue
              /\ platform_scores = NoValue
              /\ elo_rating = NoValue
        /\ ~AnalysisFails => metrics # NoValue

\* C11 witness: a request whose upload was analysed until count_skills raised
\* has ended with no metrics, no score and a 400 response.
C11_Witness ==
    /\ pc = "done"
    /\ counter = "skills"
    /\ metrics = NoValue
    /\ scores = NoValue
    /\ response.status = 400

\* C12 (as claimed): an error raised during resume analysis reaches the caller
\* of the engine unchanged: once calculate_rating has observed the failure, the
\* exception it handles has the class and the message of the error raised in
\* parse_resume, and the response carries that message.
C12_ErrorReachesCallerUnchanged ==
    (Parsed /\ error # NoValue /\ pc \in {"unlink", "except", "done"}) =>
        /\ exception # NoValue
        /\ exception.kind = error.kind
        /\ exception.message = error.message
        /\ pc = "done" => response.detail = error.message

\* C13 (as claimed): for platform scores in 0..100, compute_elo returns an
\* integer within 1000..2500, 1000 when all three scores are 0 and 2500 when
\* all three are 100, equal to the truncation of
\* 1000 + 15 * (0.4 * leetcode + 0.3 * github + 0.3 * resume), which is
\* 1000 + (15 * (4 * leetcode + 3 * github + 3 * resume)) div 10.
C13_EloFormula ==
    (pc \in {"return", "done"} /\ platform_scores # NoValue) =>
        LET l == platform_scores.leetcode_score
            g == platform_scores.github_score
            r == platform_scores.resume_score
        IN  /\ elo_rating \in 1000..2500
            /\ (l = 0 /\ g = 0 /\ r = 0) => elo_rating = 1000
            /\ (l = 100 /\ g = 100 /\ r = 100) => elo_rating = 2500
            /\ elo_rating = 1000 + ((15 * (4 * l + 3 * g + 3 * r)) \div 10)

\* The header list each counter hands to find_section.
HeadersOf(c) ==
    CASE c = "internships" -> exp_headers
      [] c = "projects" -> project_headers
      [] c = "certifications" -> cert_headers
      [] c = "skills" -> skill_headers
      [] c = "achievements" -> achievement_headers
      [] c = "extracurricular" -> extra_headers

\* The lines of t on which the header stands, after the first line.
Occurrences(t, header) == {i \in 2..Len(t) : t[i] = header}

\* C14: find_section tries the candidates in list order and stops at the first
\* one that matches anywhere in the text. For every header list: not-found is
\* returned exactly when no candidate matches; otherwise the span starts right
\* after the earliest occurrence of the first matching candidate of the list,
\* wherever later candidates occur, and it is the span of that one occurrence,
\* not extended by other occurrences of the header.
C14_FirstCandidateFirstOccurrence ==
    pc # "parse" =>
        \A c \in AllSpans :
            LET H == HeadersOf(c)
                M == {k \in 1..Len(H) : Occurrences(text, H[k]) # {}}
            IN  IF M = {} THEN spans[c] = <<-1, -1>>
                ELSE LET i == Least(Occurrences(text, H[Least(M)]))
                     IN  /\ spans[c][1] = LineStart(text, i + 1)
                         /\ spans[c] = span_after(text, i)

\* C14 witness: "personal projects" stands before two "projects" lines and the
\* span starts after the first "projects" line.
C14_Witness ==
    /\ pc # "parse"
    /\ Len(text) = 4
    /\ text[2] = "personal projects"
    /\ text[3] = "projects"
    /\ text[4] = "projects"
    /\ spans.projects[1] = LineStart(text, 4)

\* The header line after which a located span starts.
HeaderLine(t, span) == CHOOSE i \in 1..Len(t) : LineStart(t, i + 1) = span[1]

\* C15 (as claimed): when find_section locates a header, the span ends at the
\* nearest following line that is a header of the global vocabulary, the line
\* directly after the header line included; only if no such line follows does
\* it end 3000 characters after its start.
C15_EndsAtNextVocabularyHeader ==
    pc # "parse" =>
        \A c \in AllSpans :
            spans[c] # <<-1, -1>> =>
                LET start == spans[c][1]
                    i == HeaderLine(text, spans[c])
                    F == {j \in (i + 1)..Len(text) : InVocabulary(text[j])}
                IN  IF F # {}
                    THEN spans[c][2] = Max(start, LineStart(text, Least(F)) - 1)
                    ELSE spans[c][2] = start + 3000

\* len(text)
TextLen(t) == LineStart(t, Len(t) + 1)

\* C16 (as claimed): every span find_section returns other than (-1, -1) is a
\* valid half-open offset pair into the text: 0 <= start <= end <= len(text).
C16_SpanWithinText ==
    pc # "parse" =>
        \A c \in AllSpans :
            spans[c] # <<-1, -1>> =>
                /\ 0 <= spans[c][1]
                /\ spans[c][1] <= spans[c][2]
                /\ spans[c][2] <= TextLen(text)

\* C16 amended: every span find_section returns other than (-1, -1) has
\* 0 <= start <= len(text) and start <= end; its end lies within the text
\* unless it is the 3000-character limit, start + 3000.
C16_SpanStartWithinText ==
    pc # "parse" =>
        \A c \in AllSpans :
            spans[c] # <<-1, -1>> =>
                /\ 0 <= spans[c][1]
                /\ spans[c][1] <= spans[c][2]
                /\ spans[c][1] <= TextLen(text)
                /\ spans[c][2] <= TextLen(text) \/ spans[c][2] = spans[c][1] + 3000

\* C16 witness: a projects span that ends 3000 characters after its start,
\* beyond the end of the text.
C16_Witness ==
    /\ pc # "parse"
    /\ spans.projects # <<-1, -1>>
    /\ spans.projects[2] = spans.projects[1] + 3000
    /\ spans.projects[2] > TextLen(text)

\* C17 (as claimed): find_section locates a candidate header standing alone at
\* the start of any line of the text, the first line included: it returns
\* not-found (-1, -1) exactly when no line of the text is a candidate header.
C17_LocatesHeaderOnAnyLine ==
    pc # "parse" =>
        \A c \in AllSpans :
            LET H == HeadersOf(c)
            IN  spans[c] = <<-1, -1>>
                    <=> ~\E i \in 1..Len(text) : \E k \in 1..Len(H) : text[i] = H[k]

\* C18 (as claimed): whenever a projects section is located, count_projects
\* returns at least 1, also when every one of the five section signals is zero.
C18_LocatedProjectsAtLeastOne ==
    (pc = "counted" /\ counter = "projects" /\ raw.found) => count >= 1

\* The signals a section-based counter computes on the section within its span.
SectionSignals(t, c) ==
    LET sec == section_text(t, find_section(t, HeadersOf(c)))
    IN  CASE c = "internships" ->
                internships_indicators(Hits(sec, "date_patterns"),
                                       Hits(sec, "company_patterns"),
                                       Hits(sec, "role_count"), Hits(sec, "bullets"))
          [] c = "projects" ->
                projects_indicators(Hits(sec, "title_patterns"),
                                    Hits(sec, "action_count"),
                                    Hits(sec, "tech_indicators"), Hits(sec, "bullets"),
                                    Hits(sec, "github_links"))
          [] c = "certifications" ->
                certifications_indicators(Hits(sec, "bullets"),
                                          Hits(sec, "platform_count"),
                                          Hits(sec, "cert_keywords"), Hits(sec, "dates"),
                                          Hits(sec, "common_certs"))

\* The matches of a counter's global fallback pattern over the full text.
FallbackMatches(t, c) ==
    CASE c = "internships" -> Hits(t, "intern_fallback")
      [] c = "projects" -> Hits(t, "project_fallback")
      [] c = "certifications" -> Hits(t, "cert_fallback")

\* C19 (as claimed): for internships, projects and certifications, when the
\* section is located but every signal computed on it is zero, the counter
\* enters its fallback mode: its result is the number of matches of its global
\* fallback pattern over the full text, capped.
C19_AllZeroEntersFallback ==
    pc # "parse" =>
        \A c \in {"internships", "projects", "certifications"} :
            (spans[c] # <<-1, -1>> /\ ~HasNonzero(SectionSignals(text, c))) =>
                metrics[c] = Min(FallbackMatches(text, c), Cap(c))

\* m is the element at rank k (from 0) of the nonzero indicators in ascending
\* order, stated without sorting.
AtRank(indicators, m, k) ==
    LET P == {p \in 1..Len(indicators) : indicators[p] > 0}
    IN  /\ \E p \in P : indicators[p] = m
        /\ Cardinality({p \in P : indicators[p] < m}) <= k
        /\ Cardinality({p \in P : indicators[p] <= m}) > k

\* The number of nonzero indicators.
NonzeroCount(indicators) ==
    Cardinality({p \in 1..Len(indicators) : indicators[p] > 0})

\* The indicators of the median-reconciled counter that was applied.
MedianIndicators ==
    IF counter = "internships"
    THEN internships_indicators(raw.date_patterns, raw.company_patterns,
                                raw.role_count, raw.bullets)
    ELSE projects_indicators(raw.title_patterns, raw.action_count,
                             raw.tech_indicators, raw.bullets, raw.github_links)

\* A median-reconciled counter has returned from a located section with an even,
\* positive number of nonzero signals.
EvenNonzero ==
    /\ pc = "counted"
    /\ counter \in {"internships", "projects"}
    /\ raw.found
    /\ NonzeroCount(MedianIndicators) \in {2, 4}

\* The count a median-reconciled counter returns for the reconciled value m.
Clamped(m) == IF counter = "internships" THEN Min(m, 5) ELSE Min(Max(m, 1), 8)

\* C20 (as claimed): with an even number of nonzero signals, median
\* reconciliation takes the lower of the two middle values of the sorted
\* nonzero signals; [2, 4] reconciles to 2.
C20_EvenTakesLowerMiddle ==
    EvenNonzero =>
        LET ind == MedianIndicators
        IN  \E m \in {ind[p] : p \in 1..Len(ind)} :
                /\ AtRank(ind, m, (NonzeroCount(ind) \div 2) - 1)
                /\ count = Clamped(m)

\* C20 amended: with an even number of nonzero signals, median reconciliation
\* takes the upper of the two middle values of the sorted nonzero signals;
\* [2, 4] reconciles to 4.
C20_EvenTakesUpperMiddle ==
    EvenNonzero =>
        LET ind == MedianIndicators
        IN  \E m \in {ind[p] : p \in 1..Len(ind)} :
                /\ AtRank(ind, m, NonzeroCount(ind) \div 2)
                /\ count = Clamped(m)

\* C20 witness: the internships indicators [2, 4, 0, 0] reconcile to 4.
C20_Witness ==
    /\ pc = "counted"
    /\ counter = "internships"
    /\ raw.found
    /\ internships_indicators(raw.date_patterns, raw.company_patterns,
                              raw.role_count, raw.bullets) = <<2, 4, 0, 0>>
    /\ count = 4

\* The five signals of a located certifications section, in the order the code
\* appends them: bullets, platform names, certification keywords halved, years,
\* known certification names.
CertificationSignals ==
    <<raw.bullets, raw.platform_count, raw.cert_keywords \div 2, raw.dates,
      raw.common_certs>>

CertificationsLocated == pc = "counted" /\ counter = "certifications" /\ raw.found

\* C21: when a certifications section is located, count_certifications returns
\* min(10, greatest of the five signals), the signals being the bullet count, the
\* platform-name hits, the certification-keyword hits integer-divided by 2, the
\* year mentions and the known-certification-name hits; so the result is never
\* lower than any single signal capped at 10, and the global fallback is not read.
C21_CertificationsMaxOfSignals ==
    CertificationsLocated =>
        LET sig == CertificationSignals
        IN  /\ \E p \in 1..5 :
                  /\ \A q \in 1..5 : sig[q] <= sig[p]
                  /\ count = IF sig[p] < 10 THEN sig[p] ELSE 10
            /\ \A q \in 1..5 : count >= (IF sig[q] < 10 THEN sig[q] ELSE 10)
            /\ fallback_count = NotEvaluated

\* C21 witness: 5 keyword hits halve to 2, below the 3 years that decide the
\* count; and a section with 12 bullets is capped at 10.
C21_Witness ==
    /\ CertificationsLocated
    /\ \/ /\ raw.cert_keywords = 5
          /\ raw.dates = 3
          /\ raw.bullets = 1 /\ raw.platform_count = 2 /\ raw.common_certs = 0
          /\ count = 3
       \/ /\ raw.bullets = 12
          /\ count = 10

AchievementsCounted == pc = "counted" /\ counter = "achievements"

\* total_count after the achievements section: the greater of its bullets and
\* its pattern hits, 0 when no achievements section is located.
AchievementsSectionSignal ==
    IF ~raw.found THEN 0
    ELSE IF raw.bullets >= raw.pattern_matches THEN raw.bullets
    ELSE raw.pattern_matches

\* The leadership signal of the extracurricular section, 0 when none is located.
LeadershipSignal == IF raw.extra_found THEN raw.leadership_count \div 2 ELSE 0

\* C22: count_achievements returns min(8, m), m being the greater of the
\* achievements-section signal (0 without an achievements section) and the
\* leadership signal of the extracurricular section (0 without one); the global
\* certification-brand fallback pattern is consulted only when m is 0, and the result
\* is then min(8, number of fallback matches in the full text).
C22_AchievementsMaxThenFallback ==
    AchievementsCounted =>
        LET m == IF AchievementsSectionSignal >= LeadershipSignal
                 THEN AchievementsSectionSignal ELSE LeadershipSignal
        IN  IF m # 0
            THEN /\ count = (IF m < 8 THEN m ELSE 8)
                 /\ fallback_count = NotEvaluated
            ELSE /\ fallback_count.evaluated
                 /\ count = (IF fallback_count.n < 8 THEN fallback_count.n ELSE 8)

\* C22 witness: both sections located with every signal zero, and 9 fallback
\* matches in the text: the count is 8.
C22_Witness ==
    /\ AchievementsCounted
    /\ raw.found /\ raw.extra_found
    /\ AchievementsSectionSignal = 0 /\ LeadershipSignal = 0
    /\ fallback_count = Evaluated(9)
    /\ count = 8

\* C23 (as claimed): both inputs of the max in count_achievements are halved
\* counts, the achievements-section signal being the pattern hits of the three
\* categories integer-divided by 2 and the leadership signal the leadership-term
\* hits integer-divided by 2; a positive maximum, capped at 8, is the count.
C23_BothSignalsHalved ==
    AchievementsCounted =>
        LET halved == IF raw.found THEN raw.pattern_matches \div 2 ELSE 0
            m == IF halved >= LeadershipSignal THEN halved ELSE LeadershipSignal
        IN  m # 0 => count = (IF m < 8 THEN m ELSE 8)

\* C23 amended: only the leadership input of the max is a halved count. The
\* achievements-section signal is the greater of the section's bullets and the
\* pattern hits of the three categories, not divided: alone it gives the count
\* min(8, that signal), and the count is never below the pattern hits capped at
\* 8; the leadership signal alone gives min(8, leadership hits div 2).
C23_OnlyLeadershipHalved ==
    AchievementsCounted =>
        /\ raw.found =>
              count >= (IF raw.pattern_matches < 8 THEN raw.pattern_matches ELSE 8)
        /\ (raw.found /\ LeadershipSignal = 0 /\ AchievementsSectionSignal # 0) =>
              count = (IF AchievementsSectionSignal < 8
                       THEN AchievementsSectionSignal ELSE 8)
        /\ (~raw.found /\ raw.extra_found /\ raw.leadership_count >= 2) =>
              count = (IF raw.leadership_count \div 2 < 8
                       THEN raw.leadership_count \div 2 ELSE 8)

\* C23 witness: 3 pattern hits and no bullets in the achievements section, 3
\* leadership hits (halved to 1) in the extracurricular section: the count is 3.
C23_Witness ==
    /\ AchievementsCounted
    /\ raw.found /\ raw.bullets = 0 /\ raw.pattern_matches = 3
    /\ raw.extra_found /\ raw.leadership_count = 3
    /\ count = 3

Scored == pc \in {"display", "done"} /\ metrics \in CappedMetrics

\* The contribution of a metric, in hundredths.
ScoreOf(key) ==
    CASE key = "internships" -> scores.internships_score
      [] key = "projects" -> scores.projects_score
      [] key = "certifications" -> scores.certifications_score
      [] key = "skills" -> scores.skills_score
      [] key = "achievements" -> scores.achievements_score

\* round(min(v, ceiling) / ceiling * weight, 2), in hundredths.
Contribution(v, ceiling, weight) ==
    RoundHalfEven((IF v < ceiling THEN v ELSE ceiling) * weight * 100, ceiling)

\* The ceilings the score normalizes by.
ScoreCeiling ==
    [internships |-> 3, projects |-> 4, certifications |-> 5,
     skills |-> 20, achievements |-> 5]

C25_TempFileDeletedAtFinish ==
    pc = "done" => tmp_file # "exists"

====
